---- MODULE Spec2Model ----
(***************************************************************************)
(* State-machine model of the PDF field layout editor (PdfEditor,          *)
(* src/src/components/home.tsx).  The variables are the component's React  *)
(* state plus the part of the browser that decides which handler runs:     *)
(* the clock read by Date.now(), the mouse button, whether the pointer is  *)
(* over the element that carries the move/up handlers, and the click event *)
(* the browser dispatches after a mouse-up.                                *)
(*                                                                         *)
(* A second specification, SpecForm, models the signing form               *)
(* (DocumentSigning, src/unnamed/part_002): the document and the signer's  *)
(* assignment it loads and the fields it renders.                          *)
(***************************************************************************)
EXTENDS Integers, Sequences, FiniteSets, TLC

(* ------------------------------------------------------------------ *)
(* Bounds of the exploration                                           *)
(* ------------------------------------------------------------------ *)
MaxFields == 2      \* fields the registry may hold
MaxClock  == 1      \* last value of the millisecond clock
MaxCell   == 1      \* the pointer visits canvas cells 0..MaxCell
Grid      == 100    \* device pixels between two pointer positions
MaxSteps  == 2      \* |x|, |y| of a field stay within MaxSteps grid cells

(* ------------------------------------------------------------------ *)
(* Program constants                                                   *)
(* ------------------------------------------------------------------ *)
scale       == 1    \* useState(1); setScale is never called
currentPage == 1    \* useState(1); setCurrentPage is never called

FieldTypes == {"signature", "text", "date", "signblock"}
Tools      == FieldTypes \cup {"move"}
NoTool     == "null"
NoItem     == "null"

\* canvasRef.current.getBoundingClientRect(): the canvas lies one grid cell
\* right of and below the corner of the viewport
RectLeft == Grid
RectTop  == Grid
PosLimit == MaxSteps * Grid

\* Where the pointer can be: over the canvas (or a field on it), over the
\* padding of the element that carries onMouseMove/onMouseUp, or outside it
\* (tool bar, field list).
\* The visited places lie on one line that is neither horizontal, vertical
\* nor the diagonal x = y, so that every move changes x and y differently.
CanvasPoints ==
    {[area |-> "canvas", x |-> RectLeft + i * Grid,
                         y |-> RectTop + (MaxCell - i) * Grid] : i \in 0..MaxCell}
PaddingPoint ==
    [area |-> "padding", x |-> RectLeft - Grid, y |-> RectTop + (MaxCell + 1) * Grid]
OutsidePoint == [area |-> "outside", x |-> 0, y |-> 0]
PointerPlaces == CanvasPoints \cup {PaddingPoint, OutsidePoint}

VARIABLES
    selectedTool,   \* useState: the active tool, or NoTool
    controlItems,   \* useState: the ordered field collection
    selectedItem,   \* useState: the id of the selected field, or NoItem
    isDragging,     \* useState: the drag flag
    dragStart,      \* useState: the last recorded pointer position
    now,            \* the value Date.now() returns
    pointer,        \* where the pointer is
    button,         \* mouse button: up, or where and on what it went down
    pendingClick,   \* the click event the browser dispatches after a mouse-up
    onSaveCall,     \* the arguments of the onSave call of the latest handler
    session,        \* the press that started the drag in progress, and
                    \* whether the drag has moved the field (history)
    isLoading,      \* DocumentSigning useState: the data is not loaded yet
    document,       \* DocumentSigning useState: the loaded document
    signerAssignment, \* DocumentSigning useState: the signer's assignment
    signerFields,   \* DocumentSigning useState: the fields the form is built from
    isSubmitting,   \* DocumentSigning useState: onSubmit is running
    submissionSuccess, \* DocumentSigning useState: the success screen is shown
    formValues,     \* useForm: the value held for each field name
    formErrors,     \* useForm formState.errors: the message of each failing field
    isSubmitted,    \* useForm formState.isSubmitted: a submit was attempted
    onSubmitCall,   \* the argument of the onSubmit call of the latest handler
    padMounted,     \* SignaturePad: the component is constructed
    padIsDrawing,   \* SignaturePad useState isDrawing
    padIsEmpty,     \* SignaturePad useState isEmpty
    padCanvas,      \* the ink on the canvas raster, over the background fill
    padPath,        \* the current path of the canvas's 2d context
    padValue,       \* the value prop: what the form holds for the field
    padLoads,       \* the images of the init effect whose onload is pending
    padReported,    \* the arguments of the onChange calls of the latest handler
    padPointer,     \* where the mouse pointer is
    padButton,      \* the mouse button is held
    padTouch,       \* a touch that began on the canvas is in progress
    padTraced,      \* the pointer-down in progress and the lines the pointer
                    \* has traced since (history)
    padDrawn,       \* the lines painted on the canvas since the construction
                    \* or the last clear (history)
    signers         \* document form, useFieldArray: the signer id each entry
                    \* of the signers list was given when it was added

vars == <<selectedTool, controlItems, selectedItem, isDragging, dragStart,
          now, pointer, button, pendingClick, onSaveCall, session>>

formVars == <<isLoading, document, signerAssignment, signerFields,
              isSubmitting, submissionSuccess, formValues, formErrors,
              isSubmitted, onSubmitCall>>

padVars == <<padMounted, padIsDrawing, padIsEmpty, padCanvas, padPath,
             padValue, padLoads, padReported, padPointer, padButton,
             padTouch, padTraced, padDrawn>>

NoClick   == [fired |-> FALSE, x |-> 0, y |-> 0, onItem |-> FALSE,
              down |-> <<0, 0>>]
NoCall    == <<>>
ButtonUp  == [down |-> "up", item |-> 0, at |-> <<0, 0>>]
NoSession == [active |-> FALSE, at |-> <<0, 0>>, origin |-> <<0, 0>>,
              moved |-> FALSE]

(* ------------------------------------------------------------------ *)
(* handleCanvasClick: the new field                                    *)
(* ------------------------------------------------------------------ *)
\* `${selectedTool}-${Date.now()}`
MakeId(tool, t) == tool \o "-" \o ToString(t)

\* selectedTool.charAt(0).toUpperCase() + selectedTool.slice(1)
Capitalize(tool) ==
    CASE tool = "signature" -> "Signature"
      [] tool = "text"      -> "Text"
      [] tool = "date"      -> "Date"
      [] tool = "signblock" -> "Signblock"
      [] tool = "move"      -> "Move"

DefaultLabel(tool) == Capitalize(tool) \o " Field"

DefaultWidth(tool) ==
    IF tool = "signature" \/ tool = "signblock" THEN 200 ELSE 150

\* a default table that gives the composite block the signature's height
DefaultHeightFlat(tool) ==
    IF tool = "signature" \/ tool = "signblock" THEN 80 ELSE 40

DefaultHeight(tool) ==
    IF tool = "signature" THEN 80
    ELSE IF tool = "signblock" THEN 120 ELSE 40

AllCapture ==
    [video |-> TRUE, audio |-> TRUE, image |-> TRUE, signature |-> TRUE]

\* a conversion that forgets the canvas origin
ToDocumentSpaceNoOrigin(client, origin) == client \div scale

\* (e.clientX - rect.left) / scale
ToDocumentSpace(client, origin) == (client - origin) \div scale

NewItem(tool, cx, cy) ==
    LET base == [id       |-> MakeId(tool, now),
                 type     |-> tool,
                 x        |-> ToDocumentSpace(cx, RectLeft),
                 y        |-> ToDocumentSpace(cy, RectTop),
                 width    |-> DefaultWidth(tool),
                 height   |-> DefaultHeight(tool),
                 page     |-> currentPage,
                 label    |-> DefaultLabel(tool),
                 required |-> FALSE]
    IN  IF tool = "signblock"
        THEN [k \in DOMAIN base \cup {"captureOptions"} |->
                 IF k = "captureOptions" THEN AllCapture ELSE base[k]]
        ELSE base

\* useState<Document | null>(null), useState<SignerAssignment | null>(null)
NoDocument   == [id |-> "null", name |-> "", status |-> "", fields |-> <<>>]
NoAssignment == [signerId |-> "null", signerName |-> "", signerEmail |-> "",
                 fields |-> {}, status |-> ""]

\* The values a form field can hold: JavaScript's undefined, a string, a
\* boolean, a Date.
Undefined     == [type |-> "undefined", v |-> ""]
StringOf(str) == [type |-> "string", v |-> str]
BooleanOf(b)  == [type |-> "boolean", v |-> IF b THEN "true" ELSE "false"]
DateOf(day)   == [type |-> "date", v |-> day]

\* new Date()
Today == "today"

\* the field of this id among these
FieldOf(fields, id) ==
    fields[CHOOSE k \in 1..Len(fields) : fields[k].id = id]

\* signerFields.reduce((acc, field) => { acc[field.id] = false | new Date() | "" })
DefaultValues(fields) ==
    [id \in {fields[k].id : k \in 1..Len(fields)} |->
        LET type == FieldOf(fields, id).type
        IN  IF type = "checkbox" THEN BooleanOf(FALSE)
            ELSE IF type = "date" THEN DateOf(Today)
            ELSE StringOf("")]

\* useForm({ defaultValues }) on a render after the first: the form keeps
\* the values it holds; defaultValues are read on the first render only
\* (react-hook-form caches them), those of later renders are not applied.
useForm(held, defaultValues) == held

NoSubmit == [called |-> FALSE, data |-> <<>>]

\* the canvas after fillRect(0, 0, width, height): the background, no ink
Blank == {}

\* a 2d context on which no path was begun
NoPath == [open |-> FALSE, start |-> <<0, 0>>, cur |-> <<0, 0>>, segs |-> {}]

\* onChange(""): the empty payload
EmptyPayload == [mime |-> "", ink |-> {}]

\* the mouse pointer is not over the canvas
OffCanvas == <<-1, -1>>

\* no pointer is down on the canvas
NoGesture == [by |-> "none", at |-> <<0, 0>>, segs |-> {}]

Init ==
    /\ selectedTool = NoTool
    /\ controlItems = <<>>
    /\ selectedItem = NoItem
    /\ isDragging = FALSE
    /\ dragStart = <<0, 0>>
    /\ now = 0
    /\ pointer = OutsidePoint
    /\ button = ButtonUp
    /\ pendingClick = NoClick
    /\ onSaveCall = NoCall
    /\ session = NoSession
    /\ isLoading = TRUE
    /\ document = NoDocument
    /\ signerAssignment = NoAssignment
    /\ signerFields = <<>>
    /\ isSubmitting = FALSE
    /\ submissionSuccess = FALSE
    /\ formValues = DefaultValues(signerFields)
    /\ formErrors = <<>>
    /\ isSubmitted = FALSE
    /\ onSubmitCall = NoSubmit
    /\ padMounted = FALSE
    /\ padIsDrawing = FALSE
    /\ padIsEmpty = TRUE
    /\ padCanvas = Blank
    /\ padPath = NoPath
    /\ padValue = EmptyPayload
    /\ padLoads = <<>>
    /\ padReported = <<>>
    /\ padPointer = OffCanvas
    /\ padButton = FALSE
    /\ padTouch = FALSE
    /\ padTraced = NoGesture
    /\ padDrawn = {}
    /\ signers = <<"">>

(* ------------------------------------------------------------------ *)
(* The handlers of PdfEditor, over the component's state               *)
(* ------------------------------------------------------------------ *)
\* a guard that forgets the move tool
PlacementToolNoMove(tool) == tool # NoTool

\* if (!selectedTool || !canvasRef.current || selectedTool === "move") return;
PlacementTool(tool) == tool # NoTool /\ tool # "move"

\* an insertion at the front: [newItem, ...controlItems]
Prepended(items, item) == <<item>> \o items

\* setControlItems([...controlItems, newItem])
Appended(items, item) == Append(items, item)

\* a placement that drops the tool after one field
handleCanvasClickOneShot(cx, cy) ==
    IF ~PlacementTool(selectedTool)
    THEN UNCHANGED <<selectedTool, controlItems, selectedItem, isDragging,
                     dragStart>>
    ELSE LET newItem == NewItem(selectedTool, cx, cy)
         IN  /\ controlItems' = Appended(controlItems, newItem)
             /\ selectedItem' = newItem.id
             /\ selectedTool' = NoTool
             /\ UNCHANGED <<isDragging, dragStart>>

handleCanvasClick(cx, cy) ==
    IF ~PlacementTool(selectedTool)
    THEN UNCHANGED <<selectedTool, controlItems, selectedItem, isDragging,
                     dragStart>>
    ELSE LET newItem == NewItem(selectedTool, cx, cy)
         IN  /\ controlItems' = Appended(controlItems, newItem)
             /\ selectedItem' = newItem.id
             /\ UNCHANGED <<selectedTool, isDragging, dragStart>>

\* if (selectedTool === "move") { setIsDragging(true); setDragStart(...) }
StartsDrag(tool) == tool = "move"

handleItemMouseDown(id, cx, cy) ==
    /\ selectedItem' = id
    /\ IF StartsDrag(selectedTool)
       THEN isDragging' = TRUE /\ dragStart' = <<cx, cy>>
       ELSE UNCHANGED <<isDragging, dragStart>>
    /\ UNCHANGED <<selectedTool, controlItems>>

\* a shift that keeps the field at non-negative coordinates
ShiftedClamped(item, dx, dy) ==
    [item EXCEPT !.x = IF item.x + dx < 0 THEN 0 ELSE item.x + dx,
                 !.y = IF item.y + dy < 0 THEN 0 ELSE item.y + dy]

\* { ...item, x: item.x + dx, y: item.y + dy }
Shifted(item, dx, dy) == [item EXCEPT !.x = item.x + dx, !.y = item.y + dy]

\* items.map((item) => item.id === selectedItem ? moved : item)
MovedItems(items, id, dx, dy) ==
    [k \in 1..Len(items) |->
        IF items[k].id = id THEN Shifted(items[k], dx, dy) ELSE items[k]]

\* dx = (e.clientX - dragStart.x) / scale
DragDelta(client, recorded) == (client - recorded) \div scale

\* a move that forgets to record the pointer
RecordedStale(cx, cy) == dragStart

\* setDragStart({ x: e.clientX, y: e.clientY })
Recorded(cx, cy) == <<cx, cy>>

\* a move handler that does not test the selection
handleMouseMoveNoGuard(cx, cy) ==
    IF ~isDragging
    THEN UNCHANGED <<selectedTool, controlItems, selectedItem, isDragging,
                     dragStart>>
    ELSE /\ controlItems' = MovedItems(controlItems, selectedItem,
                                       DragDelta(cx, dragStart[1]),
                                       DragDelta(cy, dragStart[2]))
         /\ dragStart' = Recorded(cx, cy)
         /\ UNCHANGED <<selectedTool, selectedItem, isDragging>>

\* if (!isDragging || !selectedItem) return; ...
handleMouseMove(cx, cy) ==
    IF ~isDragging \/ selectedItem = NoItem
    THEN UNCHANGED <<selectedTool, controlItems, selectedItem, isDragging,
                     dragStart>>
    ELSE /\ controlItems' = MovedItems(controlItems, selectedItem,
                                       DragDelta(cx, dragStart[1]),
                                       DragDelta(cy, dragStart[2]))
         /\ dragStart' = Recorded(cx, cy)
         /\ UNCHANGED <<selectedTool, selectedItem, isDragging>>

handleMouseUp ==
    /\ isDragging' = FALSE
    /\ UNCHANGED <<selectedTool, controlItems, selectedItem, dragStart>>

\* items.filter((item) => item.id !== id)
Kept(items, id) == SelectSeq(items, LAMBDA item : item.id # id)

\* a delete that is ignored while a drag is in progress
deleteSelectedItemIdle ==
    IF selectedItem # NoItem /\ ~isDragging
    THEN /\ controlItems' = Kept(controlItems, selectedItem)
         /\ selectedItem' = NoItem
         /\ UNCHANGED <<selectedTool, isDragging, dragStart>>
    ELSE UNCHANGED <<selectedTool, controlItems, selectedItem, isDragging,
                     dragStart>>

\* if (selectedItem) { setControlItems(filter); setSelectedItem(null) }
deleteSelectedItem ==
    IF selectedItem # NoItem
    THEN /\ controlItems' = Kept(controlItems, selectedItem)
         /\ selectedItem' = NoItem
         /\ UNCHANGED <<selectedTool, isDragging, dragStart>>
    ELSE UNCHANGED <<selectedTool, controlItems, selectedItem, isDragging,
                     dragStart>>

\* a remove button that leaves the selection alone
removeButtonClickKeepsSelection(id) ==
    /\ controlItems' = Kept(controlItems, id)
    /\ UNCHANGED <<selectedTool, selectedItem, isDragging, dragStart>>

\* the field list's remove button
removeButtonClick(id) ==
    /\ controlItems' = Kept(controlItems, id)
    /\ selectedItem' = IF selectedItem = id THEN NoItem ELSE selectedItem
    /\ UNCHANGED <<selectedTool, isDragging, dragStart>>

\* the field list's entry: onClick={() => setSelectedItem(item.id)}
listItemClick(id) ==
    /\ selectedItem' = id
    /\ UNCHANGED <<selectedTool, controlItems, isDragging, dragStart>>

(* ------------------------------------------------------------------ *)
(* Serialization                                                       *)
(* ------------------------------------------------------------------ *)
\* a projection that writes the height as width and the width as height
ConfigFieldSwapped(item) ==
    LET base == [id       |-> item.id,
                 type     |-> item.type,
                 page     |-> item.page,
                 position |-> [x |-> item.x, y |-> item.y],
                 size     |-> [width |-> item.height, height |-> item.width],
                 label    |-> item.label,
                 required |-> item.required]
    IN  IF item.type = "signblock"
        THEN base @@ [captureOptions |-> item.captureOptions]
        ELSE base

\* the object JSON.stringify writes for one field
ConfigField(item) ==
    LET base == [id       |-> item.id,
                 type     |-> item.type,
                 page     |-> item.page,
                 position |-> [x |-> item.x, y |-> item.y],
                 size     |-> [width |-> item.width, height |-> item.height],
                 label    |-> item.label,
                 required |-> item.required]
    IN  IF item.type = "signblock"
        THEN base @@ [captureOptions |-> item.captureOptions]
        ELSE base

generateConfig(items) ==
    [version |-> "1.0",
     fields  |-> [k \in 1..Len(items) |-> ConfigField(items[k])]]

\* a mapping that draws a date field as a text box
FabricTypeDateText(type) ==
    IF type = "signature" THEN "rect"
    ELSE IF type = "signblock" THEN "group" ELSE "textbox"

FabricType(type) ==
    IF type = "signature" THEN "rect"
    ELSE IF type = "text" THEN "textbox"
    ELSE IF type = "signblock" THEN "group" ELSE "rect"

\* a metadata block that leaves the capture options out
FabricMetadataPlain(item) ==
    [fieldType |-> item.type, fieldId |-> item.id, required |-> item.required]

FabricMetadata(item) ==
    LET base == [fieldType |-> item.type,
                 fieldId   |-> item.id,
                 required  |-> item.required]
    IN  IF item.type = "signblock"
        THEN base @@ [captureOptions |-> item.captureOptions]
        ELSE base

FabricObject(item) ==
    [type        |-> FabricType(item.type),
     left        |-> item.x,
     top         |-> item.y,
     width       |-> item.width,
     height      |-> item.height,
     fill        |-> IF item.type = "signblock"
                     THEN "rgba(0,0,255,0.05)" ELSE "rgba(0,0,0,0.1)",
     stroke      |-> IF item.type = "signblock" THEN "#6200EA" ELSE "#0000FF",
     strokeWidth |-> IF item.type = "signblock" THEN 2 ELSE 1,
     metadata    |-> FabricMetadata(item)]

generateFabric(items) ==
    [version |-> "5.3.0",
     objects |-> [k \in 1..Len(items) |-> FabricObject(items[k])]]

\* a save that empties the editor once the payloads are handed over
handleSaveAndClear ==
    /\ onSaveCall' = <<generateConfig(controlItems), generateFabric(controlItems)>>
    /\ controlItems' = <<>>
    /\ selectedItem' = NoItem
    /\ UNCHANGED <<selectedTool, isDragging, dragStart>>

\* onSave(config, fabric)
handleSave ==
    /\ onSaveCall' = <<generateConfig(controlItems), generateFabric(controlItems)>>
    /\ UNCHANGED <<selectedTool, controlItems, selectedItem, isDragging,
                   dragStart>>

(* ------------------------------------------------------------------ *)
(* The browser: which element an event reaches                         *)
(* ------------------------------------------------------------------ *)
\* The field's element covers left: x px, top: y px, width, height of the
\* canvas; only the fields of the current page are rendered.
Hit(item, cx, cy) ==
    /\ item.page = currentPage
    /\ item.x <= cx - RectLeft /\ cx - RectLeft < item.x + item.width
    /\ item.y <= cy - RectTop  /\ cy - RectTop  < item.y + item.height

\* Later siblings paint over earlier ones: the topmost field under the
\* pointer is the last one in the list; 0 when the canvas itself is hit.
TopHit(items, cx, cy) ==
    LET hits == {k \in 1..Len(items) : Hit(items[k], cx, cy)}
    IN  IF hits = {} THEN 0 ELSE CHOOSE k \in hits : \A j \in hits : j <= k

\* The index of the pressed field after the fields with this id are removed.
Reindexed(items, idx, id) ==
    IF idx = 0 \/ items[idx].id = id THEN 0
    ELSE Cardinality({k \in 1..idx : items[k].id # id})

InBounds(items) ==
    \A k \in 1..Len(items) :
        /\ items[k].x >= -PosLimit /\ items[k].x <= PosLimit
        /\ items[k].y >= -PosLimit /\ items[k].y <= PosLimit

(* ------------------------------------------------------------------ *)
(* Events                                                              *)
(* ------------------------------------------------------------------ *)
\* tool buttons: onClick={() => setSelectedTool(t)}; a button is reached
\* with the mouse or, at any time, with the keyboard
SelectTool(t) ==
    /\ pendingClick = NoClick
    /\ selectedTool' = t
    /\ onSaveCall' = NoCall
    /\ UNCHANGED formVars
    /\ UNCHANGED padVars
    /\ UNCHANGED signers
    /\ UNCHANGED <<controlItems, selectedItem, isDragging, dragStart, now,
                   pointer, button, pendingClick, session>>

\* time passes
Tick ==
    /\ pendingClick = NoClick
    /\ now < MaxClock
    /\ now' = now + 1
    /\ onSaveCall' = NoCall
    /\ UNCHANGED formVars
    /\ UNCHANGED padVars
    /\ UNCHANGED signers
    /\ UNCHANGED <<selectedTool, controlItems, selectedItem, isDragging,
                   dragStart, pointer, button, pendingClick, session>>

\* The pointer moves to another place.  onMouseMove is on the element that
\* holds the canvas and its padding; outside it no handler runs.
PointerMove(to) ==
    /\ pendingClick = NoClick
    /\ to # pointer
    /\ pointer' = to
    /\ IF to.area = "outside"
       THEN UNCHANGED <<selectedTool, controlItems, selectedItem, isDragging,
                        dragStart>>
       ELSE handleMouseMove(to.x, to.y)
    /\ InBounds(controlItems')
    /\ onSaveCall' = NoCall
    /\ UNCHANGED formVars
    /\ UNCHANGED padVars
    /\ UNCHANGED signers
    /\ session' = IF session.active /\ controlItems' # controlItems
                  THEN [session EXCEPT !.moved = TRUE] ELSE session
    /\ UNCHANGED <<now, button, pendingClick>>

\* mouse-down on a field: onMouseDown={(e) => handleItemMouseDown(e, item.id)}
ItemMouseDown ==
    LET hit == TopHit(controlItems, pointer.x, pointer.y)
    IN  /\ pendingClick = NoClick
        /\ button.down = "up"
        /\ pointer.area = "canvas"
        /\ hit # 0
        /\ handleItemMouseDown(controlItems[hit].id, pointer.x, pointer.y)
        /\ button' = [down |-> "canvas", item |-> hit,
                       at |-> <<pointer.x, pointer.y>>]
        /\ session' = IF selectedTool = "move"
                      THEN [active |-> TRUE,
                            at     |-> <<pointer.x, pointer.y>>,
                            origin |-> <<controlItems[hit].x, controlItems[hit].y>>,
                            moved  |-> FALSE]
                      ELSE NoSession
        /\ onSaveCall' = NoCall
        /\ UNCHANGED formVars
        /\ UNCHANGED padVars
        /\ UNCHANGED signers
        /\ UNCHANGED <<now, pointer, pendingClick>>

\* mouse-down on the canvas background: the canvas has no onMouseDown
CanvasMouseDown ==
    /\ pendingClick = NoClick
    /\ button.down = "up"
    /\ pointer.area = "canvas"
    /\ TopHit(controlItems, pointer.x, pointer.y) = 0
    /\ button' = [down |-> "canvas", item |-> 0,
                   at |-> <<pointer.x, pointer.y>>]
    /\ onSaveCall' = NoCall
    /\ UNCHANGED formVars
    /\ UNCHANGED padVars
    /\ UNCHANGED signers
    /\ UNCHANGED <<selectedTool, controlItems, selectedItem, isDragging,
                   dragStart, now, pointer, pendingClick, session>>

\* mouse-down anywhere else
OtherMouseDown ==
    /\ pendingClick = NoClick
    /\ button.down = "up"
    /\ pointer.area # "canvas"
    /\ button' = [down |-> "off", item |-> 0, at |-> <<0, 0>>]
    /\ onSaveCall' = NoCall
    /\ UNCHANGED formVars
    /\ UNCHANGED padVars
    /\ UNCHANGED signers
    /\ UNCHANGED <<selectedTool, controlItems, selectedItem, isDragging,
                   dragStart, now, pointer, pendingClick, session>>

\* The click event follows the mouse-up when the button went down and came
\* up inside the canvas; its target is the field when both happened on the
\* same field, the canvas otherwise.  Its clientX/clientY are the place of the
\* mouse-up; `down` keeps the place of the mouse-down (history).
ClickAfterUp ==
    IF pointer.area = "canvas" /\ button.down = "canvas"
    THEN [fired  |-> TRUE, x |-> pointer.x, y |-> pointer.y,
          onItem |-> /\ button.item # 0
                     /\ TopHit(controlItems, pointer.x, pointer.y) = button.item,
          down   |-> button.at]
    ELSE NoClick

\* mouse-up over the canvas or its padding: onMouseUp={handleMouseUp}
MouseUp ==
    /\ pendingClick = NoClick
    /\ button.down # "up"
    /\ pointer.area # "outside"
    /\ ClickAfterUp.fired /\ PlacementTool(selectedTool)
          => Len(controlItems) < MaxFields
    /\ handleMouseUp
    /\ pendingClick' = ClickAfterUp
    /\ button' = ButtonUp
    /\ session' = NoSession
    /\ onSaveCall' = NoCall
    /\ UNCHANGED formVars
    /\ UNCHANGED padVars
    /\ UNCHANGED signers
    /\ UNCHANGED <<now, pointer>>

\* mouse-up outside the element that carries onMouseUp
MouseUpOutside ==
    /\ pendingClick = NoClick
    /\ button.down # "up"
    /\ pointer.area = "outside"
    /\ button' = ButtonUp
    /\ session' = NoSession
    /\ onSaveCall' = NoCall
    /\ UNCHANGED formVars
    /\ UNCHANGED padVars
    /\ UNCHANGED signers
    /\ UNCHANGED <<selectedTool, controlItems, selectedItem, isDragging,
                   dragStart, now, pointer, pendingClick>>

\* the click bubbles from its target to the canvas: onClick={handleCanvasClick}
Click ==
    /\ pendingClick.fired
    /\ handleCanvasClick(pendingClick.x, pendingClick.y)
    /\ pendingClick' = NoClick
    /\ onSaveCall' = NoCall
    /\ UNCHANGED formVars
    /\ UNCHANGED padVars
    /\ UNCHANGED signers
    /\ UNCHANGED <<now, pointer, button, session>>

\* a mouse click on an entry of the field list
ListItemClick(k) ==
    /\ pendingClick = NoClick
    /\ button.down = "up"
    /\ pointer.area = "outside"
    /\ k \in 1..Len(controlItems)
    /\ listItemClick(controlItems[k].id)
    /\ onSaveCall' = NoCall
    /\ UNCHANGED formVars
    /\ UNCHANGED padVars
    /\ UNCHANGED signers
    /\ UNCHANGED <<now, pointer, button, pendingClick, session>>

\* What the removal of the fields with this id does to the press in progress
PressAfterRemoval(id) ==
    LET idx == Reindexed(controlItems, button.item, id)
    IN  /\ button' = [button EXCEPT !.item = idx]
        /\ session' = IF idx = 0 THEN NoSession ELSE session

\* the remove button of an entry of the field list (mouse or keyboard)
RemoveButton(k) ==
    /\ pendingClick = NoClick
    /\ k \in 1..Len(controlItems)
    /\ removeButtonClick(controlItems[k].id)
    /\ PressAfterRemoval(controlItems[k].id)
    /\ onSaveCall' = NoCall
    /\ UNCHANGED formVars
    /\ UNCHANGED padVars
    /\ UNCHANGED signers
    /\ UNCHANGED <<now, pointer, pendingClick>>

\* handleKeyDown with e.key "Delete" or "Backspace"
KeyDelete ==
    /\ pendingClick = NoClick
    /\ deleteSelectedItem
    /\ PressAfterRemoval(selectedItem)
    /\ onSaveCall' = NoCall
    /\ UNCHANGED formVars
    /\ UNCHANGED padVars
    /\ UNCHANGED signers
    /\ UNCHANGED <<now, pointer, pendingClick>>

\* the Save Template button
Save ==
    /\ pendingClick = NoClick
    /\ handleSave
    /\ UNCHANGED <<now, pointer, button, pendingClick, session>>
    /\ UNCHANGED formVars
    /\ UNCHANGED padVars
    /\ UNCHANGED signers

Next ==
    \/ \E t \in Tools : SelectTool(t)
    \/ Tick
    \/ \E to \in PointerPlaces : PointerMove(to)
    \/ ItemMouseDown
    \/ CanvasMouseDown
    \/ OtherMouseDown
    \/ MouseUp
    \/ MouseUpOutside
    \/ Click
    \/ \E k \in 1..MaxFields : ListItemClick(k)
    \/ \E k \in 1..MaxFields : RemoveButton(k)
    \/ KeyDelete
    \/ Save

Spec == Init /\ [][Next]_vars

TypeOK ==
    /\ selectedTool \in Tools \cup {NoTool}
    /\ Len(controlItems) <= MaxFields
    /\ isDragging \in BOOLEAN
    /\ now \in 0..MaxClock
    /\ pointer \in PointerPlaces
    /\ button.down \in {"up", "canvas", "off"}
    /\ button.item \in 0..Len(controlItems)

(* ------------------------------------------------------------------ *)
(* The signing form (DocumentSigning)                                  *)
(* ------------------------------------------------------------------ *)
\* The fields of the document fetchData builds.  The source stands in for
\* the backend with this one document and an assignment of all its fields;
\* the responses explored are the documents made of any of these fields, in
\* this order, each required or optional, and any set of their ids assigned.
MockFields ==
    << [id |-> "field-1", type |-> "text", page |-> 1,
        position |-> [x |-> 100, y |-> 200],
        size |-> [width |-> 200, height |-> 30],
        label |-> "Full Name", required |-> TRUE],
       [id |-> "field-2", type |-> "date", page |-> 1,
        position |-> [x |-> 100, y |-> 250],
        size |-> [width |-> 200, height |-> 30],
        label |-> "Signing Date", required |-> TRUE],
       [id |-> "field-3", type |-> "checkbox", page |-> 1,
        position |-> [x |-> 100, y |-> 300],
        size |-> [width |-> 20, height |-> 20],
        label |-> "I agree to the terms and conditions", required |-> TRUE],
       [id |-> "field-4", type |-> "signature", page |-> 1,
        position |-> [x |-> 100, y |-> 350],
        size |-> [width |-> 300, height |-> 100],
        label |-> "Signature", required |-> TRUE] >>

MockIds == {MockFields[i].id : i \in 1..Len(MockFields)}

\* one choice per mock field: left out, present and required, present and optional
FieldChoices == [1..Len(MockFields) -> {"absent", "required", "optional"}]

DocumentFields(choice) ==
    LET present == {i \in 1..Len(MockFields) : choice[i] # "absent"}
        nth(k)  == CHOOSE i \in present :
                       Cardinality({j \in present : j < i}) = k - 1
    IN  [k \in 1..Cardinality(present) |->
            [MockFields[nth(k)] EXCEPT !.required = (choice[nth(k)] = "required")]]

\* const documentId = params.documentId || propDocumentId: with both route
\* ids the document and assignment carry them, without them the demo ids
MockDocument(hasIds, fields) ==
    [id     |-> IF hasIds THEN "documentId" ELSE "demo-123",
     name   |-> IF hasIds THEN "Sample Contract" ELSE "Demo Contract",
     status |-> "pending",
     fields |-> fields]

\* assignment.fields is an array read only through includes(): a set of ids
MockSignerAssignment(hasIds, assigned) ==
    [signerId    |-> IF hasIds THEN "signerId" ELSE "signer-456",
     signerName  |-> IF hasIds THEN "John Doe" ELSE "Demo User",
     signerEmail |-> IF hasIds THEN "john.doe@example.com"
                     ELSE "demo.user@example.com",
     fields      |-> assigned,
     status      |-> "pending"]

\* a filter that lets every field of the document through
AllFields(fields, assigned) == fields

\* mockDocument.fields.filter((field) => mockSignerAssignment.fields.includes(field.id))
AssignedFields(fields, assigned) ==
    SelectSeq(fields, LAMBDA field : field.id \in assigned)

\* the body of fetchData for one response
fetchData(hasIds, fields, assigned) ==
    LET mockDocument         == MockDocument(hasIds, fields)
        mockSignerAssignment == MockSignerAssignment(hasIds, assigned)
    IN  /\ document' = mockDocument
        /\ signerAssignment' = mockSignerAssignment
        /\ signerFields' = AssignedFields(mockDocument.fields,
                                          mockSignerAssignment.fields)
        /\ isLoading' = FALSE

\* the effect's first run, after the component is mounted
Mount ==
    /\ isLoading
    /\ \E hasIds \in BOOLEAN, choice \in FieldChoices, assigned \in SUBSET MockIds :
           fetchData(hasIds, DocumentFields(choice), assigned)
    /\ formValues' = useForm(formValues, DefaultValues(signerFields'))
    /\ onSubmitCall' = NoSubmit
    /\ UNCHANGED <<isSubmitting, submissionSuccess, formErrors, isSubmitted>>
    /\ UNCHANGED vars
    /\ UNCHANGED padVars
    /\ UNCHANGED signers

\* a later run of the effect: documentId or signerId changed.  The runs
\* explored are those for another signer of the document already loaded,
\* assigned some of that document's fields.
RouteChange ==
    /\ ~isLoading
    /\ \E hasIds \in BOOLEAN,
          assigned \in SUBSET {document.fields[k].id :
                                  k \in 1..Len(document.fields)} :
           fetchData(hasIds, document.fields, assigned)
    /\ formValues' = useForm(formValues, DefaultValues(signerFields'))
    /\ onSubmitCall' = NoSubmit
    /\ UNCHANGED <<isSubmitting, submissionSuccess, formErrors, isSubmitted>>
    /\ UNCHANGED vars
    /\ UNCHANGED padVars
    /\ UNCHANGED signers

\* {signerFields.map((field) => <FormField key={field.id} name={field.id} .../>)}
\* behind the isLoading screen and the success screen
RenderedFields ==
    IF isLoading \/ submissionSuccess THEN <<>>
    ELSE [k \in 1..Len(signerFields) |-> signerFields[k].id]

RenderedIds == {RenderedFields[k] : k \in 1..Len(RenderedFields)}

\* get(_formValues, name): the value held for a field, undefined if none is
FieldValue(values, id) ==
    IF id \in DOMAIN values THEN values[id] ELSE Undefined

\* The zod rule made for one field: the message of the issue it raises for a
\* value, "" if it accepts the value.
Accepted == ""

\* a string rule without the minimum length
StringRuleLax(required, message, value) ==
    IF value.type = "undefined"
    THEN IF required THEN "Required" ELSE Accepted
    ELSE IF value.type # "string"
    THEN "Expected string, received " \o value.type
    ELSE Accepted

\* z.string().min(1, { message }) / z.string().optional()
StringRule(required, message, value) ==
    IF value.type = "undefined"
    THEN IF required THEN "Required" ELSE Accepted
    ELSE IF value.type # "string"
    THEN "Expected string, received " \o value.type
    ELSE IF required /\ value.v = "" THEN message ELSE Accepted

\* z.date({ required_error }) / z.date().optional()
DateRule(required, message, value) ==
    IF value.type = "undefined"
    THEN IF required THEN message ELSE Accepted
    ELSE IF value.type # "date"
    THEN "Expected date, received " \o value.type
    ELSE Accepted

\* z.boolean().refine((val) => val === true, { message }) / z.boolean().optional()
BooleanRule(required, message, value) ==
    IF value.type = "undefined"
    THEN IF required THEN "Required" ELSE Accepted
    ELSE IF value.type # "boolean"
    THEN "Expected boolean, received " \o value.type
    ELSE IF required /\ value.v # "true" THEN message ELSE Accepted

\* the field types createFormSchema has a case for
SchemaTypes == {"text", "date", "checkbox", "signature"}

\* schemaObj[field.id] of createFormSchema, applied to a value
Issue(field, value) ==
    CASE field.type = "text" ->
            StringRule(field.required, field.label \o " is required", value)
      [] field.type = "date" ->
            DateRule(field.required, field.label \o " is required", value)
      [] field.type = "checkbox" ->
            BooleanRule(field.required, field.label \o " must be checked", value)
      [] field.type = "signature" ->
            StringRule(field.required, "Signature is required", value)

\* the keys of z.object(schemaObj)
SchemaKeys(fields) ==
    {fields[k].id : k \in {j \in 1..Len(fields) : fields[j].type \in SchemaTypes}}

\* a resolver that reports the first failing field only
SchemaErrorsFirst(fields, values) ==
    LET failing == {k \in 1..Len(fields) :
                       /\ fields[k].type \in SchemaTypes
                       /\ Issue(fields[k], FieldValue(values, fields[k].id))
                             # Accepted}
        first   == {k \in failing : \A j \in failing : k <= j}
    IN  [id \in {fields[k].id : k \in first} |->
            Issue(FieldOf(fields, id), FieldValue(values, id))]

\* zodResolver(createFormSchema(fields)) on the form's values: the issues,
\* by field
SchemaErrors(fields, values) ==
    LET failing == {id \in SchemaKeys(fields) :
                       Issue(FieldOf(fields, id), FieldValue(values, id))
                          # Accepted}
    IN  [id \in failing |->
            Issue(FieldOf(fields, id), FieldValue(values, id))]

\* a resolver that hands the form's values on as they are
SchemaDataRaw(fields, values) == values

\* the parsed object: the schema's keys, unknown keys stripped
SchemaData(fields, values) ==
    [id \in SchemaKeys(fields) |-> FieldValue(values, id)]

\* a schema made once, from the fields of the first render
formSchemaFieldsFirst == <<>>

\* const formSchema = createFormSchema(signerFields), made on every render
\* and handed to useForm, which uses the resolver of the latest render
formSchemaFields == signerFields

\* what the control rendered for a field type can hand to formField.onChange
PickedDay == "picked"
DrawnUrl  == "data:image/png;base64"
ControlValues(type) ==
    CASE type = "text"      -> {StringOf(""), StringOf("a")}
      [] type = "date"      -> {DateOf(PickedDay), Undefined}
      [] type = "checkbox"  -> {BooleanOf(TRUE), BooleanOf(FALSE)}
      [] type = "signature" -> {StringOf(""), StringOf(DrawnUrl)}
      [] OTHER              -> {}

\* formField.onChange(value) of a rendered field; once a submit was attempted
\* the resolver runs again and the error of this field is brought up to date
SetValue(id, value) ==
    LET values == [n \in DOMAIN formValues \cup {id} |->
                      IF n = id THEN value ELSE formValues[n]]
        errors == SchemaErrors(formSchemaFields, values)
    IN  /\ id \in RenderedIds
        /\ value \in ControlValues(FieldOf(signerFields, id).type)
        /\ value # FieldValue(formValues, id)
        /\ formValues' = values
        /\ formErrors' =
              IF ~isSubmitted THEN formErrors
              ELSE [n \in (DOMAIN formErrors \ {id})
                             \cup ({id} \cap DOMAIN errors) |->
                       IF n = id THEN errors[n] ELSE formErrors[n]]
        /\ onSubmitCall' = NoSubmit
        /\ UNCHANGED <<isLoading, document, signerAssignment, signerFields,
                       isSubmitting, submissionSuccess, isSubmitted>>
        /\ UNCHANGED vars
        /\ UNCHANGED padVars
        /\ UNCHANGED signers

\* setIsSubmitting(true); ... await the timer
onSubmit(data) ==
    /\ isSubmitting' = TRUE
    /\ onSubmitCall' = [called |-> TRUE, data |-> data]

\* form.handleSubmit(onSubmit): the Sign Document button, enabled while
\* no submission is running
Submit ==
    LET errors == SchemaErrors(formSchemaFields, formValues)
    IN  /\ ~isLoading /\ ~submissionSuccess
        /\ ~isSubmitting
        /\ isSubmitted' = TRUE
        /\ formErrors' = errors
        /\ IF DOMAIN errors = {}
           THEN onSubmit(SchemaData(formSchemaFields, formValues))
           ELSE /\ onSubmitCall' = NoSubmit
                /\ UNCHANGED isSubmitting
        /\ UNCHANGED <<isLoading, document, signerAssignment, signerFields,
                       submissionSuccess, formValues>>
        /\ UNCHANGED vars
        /\ UNCHANGED padVars
        /\ UNCHANGED signers

\* an end of onSubmit that leaves the submitting flag set
onSubmitNoFinally ==
    /\ submissionSuccess' = TRUE
    /\ UNCHANGED isSubmitting

\* after the await: setSubmissionSuccess(true); finally setIsSubmitting(false)
onSubmitRest ==
    /\ submissionSuccess' = TRUE
    /\ isSubmitting' = FALSE

\* the rest of onSubmit, when the timer has fired:
\* setSubmissionSuccess(true); finally setIsSubmitting(false)
SubmitDone ==
    /\ isSubmitting
    /\ onSubmitRest
    /\ onSubmitCall' = NoSubmit
    /\ UNCHANGED <<isLoading, document, signerAssignment, signerFields,
                   formValues, formErrors, isSubmitted>>
    /\ UNCHANGED vars
    /\ UNCHANGED padVars
    /\ UNCHANGED signers

NextForm ==
    \/ Mount
    \/ RouteChange
    \/ \E id \in MockIds, type \in SchemaTypes :
          \E value \in ControlValues(type) : SetValue(id, value)
    \/ Submit
    \/ SubmitDone

SpecForm == Init /\ [][NextForm]_formVars

\* the timer of onSubmit (setTimeout, 1500 ms) fires
SpecFormFair == SpecForm /\ WF_formVars(SubmitDone)

\* A field of a document drawn up with the editor: the mock field k with one
\* of the types the editor places (ControlItem.type of home.tsx)
PlacedField(k, type, required) ==
    [MockFields[k] EXCEPT !.type = type, !.required = required]

\* the documents of one or two such fields
PlacedDocuments ==
    {<<PlacedField(1, t, r)>> : t \in FieldTypes, r \in BOOLEAN}
      \cup {<<PlacedField(1, t, r), PlacedField(2, u, q)>> :
                t \in FieldTypes, r \in BOOLEAN,
                u \in FieldTypes, q \in BOOLEAN}

\* the first run of the effect, for a document drawn up with the editor
MountPlaced ==
    /\ isLoading
    /\ \E hasIds \in BOOLEAN, fields \in PlacedDocuments,
          assigned \in SUBSET {MockFields[1].id, MockFields[2].id} :
           fetchData(hasIds, fields, assigned)
    /\ formValues' = useForm(formValues, DefaultValues(signerFields'))
    /\ onSubmitCall' = NoSubmit
    /\ UNCHANGED <<isSubmitting, submissionSuccess, formErrors, isSubmitted>>
    /\ UNCHANGED vars
    /\ UNCHANGED padVars
    /\ UNCHANGED signers

NextSynth ==
    \/ MountPlaced
    \/ \E id \in MockIds, type \in SchemaTypes :
          \E value \in ControlValues(type) : SetValue(id, value)
    \/ Submit
    \/ SubmitDone

SpecSynth == Init /\ [][NextSynth]_formVars

(* ------------------------------------------------------------------ *)
(* Steps named by the properties                                       *)
(* ------------------------------------------------------------------ *)
Fields == 1..Len(controlItems)

\* the step adds a field / removes fields
Creates == Len(controlItems') > Len(controlItems)
Removes == Len(controlItems') < Len(controlItems)

\* the step is the dispatch of a click whose target is a field / the canvas
ClickOnField  == pendingClick.fired /\ pendingClick.onItem /\ ~pendingClick'.fired
ClickOnCanvas == pendingClick.fired /\ ~pendingClick.onItem /\ ~pendingClick'.fired

\* the step releases the mouse button / takes the pointer off the canvas
Releases     == button.down # "up" /\ button'.down = "up"
LeavesCanvas == pointer.area = "canvas" /\ pointer'.area # "canvas"

(* ------------------------------------------------------------------ *)
(* Properties                                                          *)
(* ------------------------------------------------------------------ *)

\* C1: no two fields of the registry have the same id, whatever sequence of
\* create, move, remove and select operations produced it.
C1_UniqueIds ==
    \A i, j \in Fields : i # j => controlItems[i].id # controlItems[j].id

\* C2: a click on an existing field while a placement tool (signature, text,
\* date, signblock) is active creates no field: the number of fields is
\* unchanged and the clicked field stays the selected one.
C2_ClickOnFieldCreatesNothing ==
    [][ClickOnField /\ selectedTool \in FieldTypes
          => /\ Len(controlItems') = Len(controlItems)
             /\ selectedItem' = selectedItem]_vars

\* C3: a pointer-up, or the pointer leaving the canvas area, while a drag is
\* in progress ends the drag at once.
C3_UpOrLeaveEndsDrag ==
    [][isDragging /\ (Releases \/ LeavesCanvas) => ~isDragging']_vars

\* C4: while the button pressed on a field with the move tool is held, the
\* field's position is its position at the press plus (latest pointer - press
\* pointer)/scale, the latest pointer being the one recorded, which is the
\* pointer's place whenever the pointer is over the handled area.
C4_DragFollowsPointer ==
    session.active =>
        /\ isDragging
        /\ button.item \in Fields
        /\ controlItems[button.item].x
              = session.origin[1] + (dragStart[1] - session.at[1]) \div scale
        /\ controlItems[button.item].y
              = session.origin[2] + (dragStart[2] - session.at[2]) \div scale
        /\ pointer.area # "outside" => dragStart = <<pointer.x, pointer.y>>

\* C4 witness: a drag in progress has carried the field away from where it
\* was pressed.
C4_Witness ==
    /\ session.active
    /\ dragStart # session.at
    /\ controlItems[button.item].x # session.origin[1]
    /\ controlItems[button.item].y # session.origin[2]

\* C5: a removal (delete key or remove button) makes the config payload and
\* the fabric payload exactly one field shorter.
C5_RemovalDropsExactlyOne ==
    [][Removes =>
          /\ Len(generateConfig(controlItems').fields)
                = Len(generateConfig(controlItems).fields) - 1
          /\ Len(generateFabric(controlItems').objects)
                = Len(generateFabric(controlItems).objects) - 1]_vars

\* C6: the two payloads handed to onSave have the registry's length and
\* order, and at every index the fabric object's metadata (fieldId,
\* fieldType, required, captureOptions) and its left/top/width/height equal
\* the config field's id, type, required, captureOptions, position and size.
C6_PayloadsAgree ==
    onSaveCall # NoCall =>
        LET c == onSaveCall[1].fields
            f == onSaveCall[2].objects
        IN  /\ Len(c) = Len(controlItems)
            /\ Len(f) = Len(controlItems)
            /\ \A i \in Fields :
                  /\ c[i].id = controlItems[i].id
                  /\ f[i].metadata.fieldId = c[i].id
                  /\ f[i].metadata.fieldType = c[i].type
                  /\ f[i].metadata.required = c[i].required
                  /\ ("captureOptions" \in DOMAIN f[i].metadata)
                        = ("captureOptions" \in DOMAIN c[i])
                  /\ "captureOptions" \in DOMAIN c[i]
                        => /\ "captureOptions" \in DOMAIN f[i].metadata
                           /\ f[i].metadata.captureOptions = c[i].captureOptions
                  /\ f[i].left = c[i].position.x
                  /\ f[i].top = c[i].position.y
                  /\ f[i].width = c[i].size.width
                  /\ f[i].height = c[i].size.height

\* C6 witness: a save of two fields, one of them a composite block, that do
\* not lie at the same place.
C6_Witness ==
    /\ onSaveCall # NoCall
    /\ Len(controlItems) = 2
    /\ controlItems[1].type = "signblock"
    /\ controlItems[2].type # "signblock"
    /\ controlItems[1].x # controlItems[2].x

\* The defaults table of the data model.
TableWidth(type) ==
    CASE type = "signature" -> 200 [] type = "signblock" -> 200
      [] type = "text" -> 150 [] type = "date" -> 150
TableHeight(type) ==
    CASE type = "signature" -> 80 [] type = "signblock" -> 120
      [] type = "text" -> 40 [] type = "date" -> 40
TableLabel(type) ==
    CASE type = "signature" -> "Signature Field"
      [] type = "signblock" -> "Signblock Field"
      [] type = "text" -> "Text Field" [] type = "date" -> "Date Field"

\* C7: the field a creation adds has the type of the active tool, the
\* current page, required = false, the default size and label of its type,
\* and a capture-options record (all four modes true) exactly when it is a
\* signblock.
C7_CreatedFieldDefaults ==
    [][Creates =>
          LET n == controlItems'[Len(controlItems')]
          IN  /\ n.type = selectedTool
              /\ n.type \in FieldTypes
              /\ n.page = currentPage
              /\ n.required = FALSE
              /\ n.width = TableWidth(n.type)
              /\ n.height = TableHeight(n.type)
              /\ n.label = TableLabel(n.type)
              /\ ("captureOptions" \in DOMAIN n) = (n.type = "signblock")
              /\ n.type = "signblock" =>
                    n.captureOptions = [video |-> TRUE, audio |-> TRUE,
                                        image |-> TRUE, signature |-> TRUE]]_vars

\* C7 witness: a signblock and a field of another type have been created.
C7_Witness ==
    /\ Len(controlItems) = 2
    /\ controlItems[1].type = "text"
    /\ controlItems[2].type = "signblock"
    /\ controlItems[2].height = 120

\* C8: a creation appends exactly one field at the end, leaves the fields
\* that existed and their order as they were, and selects the new field.
C8_CreateAppendsAndSelects ==
    [][Creates =>
          /\ Len(controlItems') = Len(controlItems) + 1
          /\ SubSeq(controlItems', 1, Len(controlItems)) = controlItems
          /\ selectedItem' = controlItems'[Len(controlItems')].id]_vars

\* C8 witness: a second field was created after a first, different one, and
\* is the selected field.
C8_Witness ==
    /\ Len(controlItems) = 2
    /\ controlItems[1] # controlItems[2]
    /\ controlItems[1].id # controlItems[2].id
    /\ selectedItem = controlItems[2].id
    /\ ~pendingClick.fired

\* C9: a click on the canvas background creates a field exactly when a tool
\* other than move is selected; with no tool or the move tool it leaves the
\* registry and the selection unchanged.
C9_BackgroundClickPlacesOnlyWithPlacementTool ==
    [][ClickOnCanvas =>
          /\ selectedTool \in FieldTypes => Creates
          /\ selectedTool \in {NoTool, "move"}
                => UNCHANGED <<controlItems, selectedItem>>]_vars

\* C9 witness: a background click was dispatched under the move tool with a
\* field in the registry, and nothing was placed.
C9_Witness ==
    /\ selectedTool = "move"
    /\ pendingClick.fired
    /\ ~pendingClick.onItem
    /\ Len(controlItems) = 1

\* C10: only a tool button changes the selected tool: a step that places or
\* removes a field, moves one, starts or ends a drag, presses or releases
\* the button, dispatches a click or saves leaves the selected tool as it was.
C10_OnlyToolButtonsChangeTool ==
    [][selectedTool' # selectedTool =>
          UNCHANGED <<controlItems, selectedItem, isDragging, dragStart,
                      pointer, button, pendingClick, session>>
          /\ onSaveCall' = NoCall]_vars

\* C10 witness: the tool that placed two fields in a row is still selected.
C10_Witness ==
    /\ selectedTool = "date"
    /\ Len(controlItems) = 2
    /\ controlItems[1].type = "date"
    /\ controlItems[2].type = "date"
    /\ selectedItem = controlItems[2].id

\* the field under the pointer, the one a mouse-down there is delivered to
Pressed == controlItems[TopHit(controlItems, pointer.x, pointer.y)].id

\* the step puts the editor into the dragging state for this field, which it
\* was not in before
EntersDragging(id) ==
    /\ isDragging' /\ selectedItem' = id
    /\ ~(isDragging /\ selectedItem = id)

\* C11: a pointer-down on an existing field selects that field; with the move
\* tool it enters Dragging for that field and records the pointer's place;
\* with any other tool or no tool it does not enter Dragging.
C11_PressDragsOnlyWithMove ==
    [][ItemMouseDown =>
          /\ selectedItem' = Pressed
          /\ selectedTool = "move"
                => /\ isDragging' /\ selectedItem' = Pressed
                   /\ dragStart' = <<pointer.x, pointer.y>>
          /\ selectedTool # "move" => ~EntersDragging(Pressed)]_vars

\* C12: a delete key-press while a field is selected takes that field out of
\* the registry and empties the selection, whatever the selected tool is and
\* whether or not a drag is in progress; with no field selected it changes
\* nothing.
C12_DeleteKeyRemovesSelected ==
    [][KeyDelete =>
          /\ selectedItem # NoItem
                => /\ \A k \in 1..Len(controlItems') :
                          controlItems'[k].id # selectedItem
                   /\ \A i \in Fields :
                          controlItems[i].id # selectedItem
                             => \E k \in 1..Len(controlItems') :
                                    controlItems'[k] = controlItems[i]
                   /\ selectedItem' = NoItem
                   /\ UNCHANGED <<selectedTool, isDragging, dragStart>>
          /\ selectedItem = NoItem
                => UNCHANGED <<selectedTool, controlItems, selectedItem,
                               isDragging, dragStart>>]_vars

\* C12 witness: the field being dragged with the move tool was deleted with
\* the button still held: the registry and the selection are empty, the drag
\* flag is still set.
C12_Witness ==
    /\ selectedTool = "move"
    /\ isDragging
    /\ button.down = "canvas"
    /\ button.item = 0
    /\ dragStart # button.at
    /\ selectedItem = NoItem
    /\ controlItems = <<>>

\* the registry with the field at index k taken out
Without(items, k) ==
    [i \in 1..(Len(items) - 1) |-> IF i < k THEN items[i] ELSE items[i + 1]]

\* C13: removing a field (remove button of its list entry, or the delete key
\* for the selected field) deletes that field and leaves all other fields and
\* their order unchanged; if the removed field was the selected one the
\* selection becomes empty, otherwise the selection is unchanged.
C13_RemoveLeavesOthers ==
    [][/\ \A k \in Fields :
             RemoveButton(k) =>
                /\ controlItems' = Without(controlItems, k)
                /\ selectedItem' = IF controlItems[k].id = selectedItem
                                   THEN NoItem ELSE selectedItem
       /\ KeyDelete /\ Removes =>
             /\ \E k \in Fields : /\ controlItems[k].id = selectedItem
                                  /\ controlItems' = Without(controlItems, k)
             /\ selectedItem' = NoItem]_vars

\* the ids of the fields in the registry
KnownIds == {controlItems[k].id : k \in Fields}

\* ids the editor can make that no field of these has
UnknownIds(items) ==
    {MakeId(t, c) : t \in FieldTypes, c \in 0..MaxClock}
        \ {items[k].id : k \in 1..Len(items)}

\* the map of a move and the filter of a removal, applied with an id that no
\* field has, give the fields back
NoOpOnUnknown(items) ==
    \A id \in UnknownIds(items) :
        /\ Kept(items, id) = items
        /\ \A dx, dy \in {-Grid, Grid} :
               MovedItems(items, id, dx, dy) = items

\* C14: a move or a removal addressed to an id that is not in the registry is
\* a silent no-op: for every registry the editor arrives at, the map and the
\* filter give the registry back, and a pointer-move or delete key-press
\* taken while the selection is not a field of the registry leaves the
\* fields, the selection and the drag state as they were.
C14_UnknownIdIsNoOp ==
    [][/\ controlItems' # controlItems => NoOpOnUnknown(controlItems')
       /\ selectedItem \notin KnownIds /\ (pointer' # pointer \/ KeyDelete)
             => UNCHANGED <<controlItems, selectedItem, selectedTool,
                            isDragging, dragStart>>]_vars

\* C14 witness: with the drag flag set and the selection empty, the pointer
\* has moved over the canvas of a non-empty registry and nothing was recorded.
C14_Witness ==
    /\ isDragging
    /\ selectedItem = NoItem
    /\ Len(controlItems) = 1
    /\ pointer.area = "canvas"
    /\ dragStart # <<pointer.x, pointer.y>>
    /\ button.down = "up"

\* two registries differ at most in the x and y of the fields with this id
SameButPosition(a, b, id) ==
    /\ Len(a) = Len(b)
    /\ \A k \in 1..Len(a) :
          IF a[k].id = id
          THEN [a[k] EXCEPT !.x = 0, !.y = 0] = [b[k] EXCEPT !.x = 0, !.y = 0]
          ELSE a[k] = b[k]

\* a move by (dx, dy) followed by the move by (-dx, -dy) gives the fields back
MoveThenBack(items, id, dx, dy) ==
    LET there == MovedItems(items, id, dx, dy)
        back  == MovedItems(there, id, -dx, -dy)
    IN  /\ SameButPosition(items, there, id)
        /\ \A k \in 1..Len(items) :
               items[k].id = id => /\ there[k].x = items[k].x + dx
                                   /\ there[k].y = items[k].y + dy
        /\ back = items

ConfigKeys == {"id", "type", "page", "position", "size", "label", "required"}

\* the field read back from one entry of the config payload
FromConfig(f) ==
    LET base == [id       |-> f.id,
                 type     |-> f.type,
                 x        |-> f.position.x,
                 y        |-> f.position.y,
                 width    |-> f.size.width,
                 height   |-> f.size.height,
                 page     |-> f.page,
                 label    |-> f.label,
                 required |-> f.required]
    IN  IF "captureOptions" \in DOMAIN f
        THEN base @@ [captureOptions |-> f.captureOptions]
        ELSE base

\* C16: the config payload handed to onSave has version "1.0" and, for every
\* field in registry order, id, type, page, position (x, y), size (width,
\* height), label and required equal to the field's, and a captureOptions
\* entry exactly when the type is signblock; the field list read back from
\* the payload alone is the registry.
C16_ConfigIsLossless ==
    onSaveCall # NoCall =>
        LET c == onSaveCall[1]
        IN  /\ c.version = "1.0"
            /\ Len(c.fields) = Len(controlItems)
            /\ \A i \in Fields :
                  LET f == c.fields[i]
                      item == controlItems[i]
                  IN  /\ f.id = item.id
                      /\ f.type = item.type
                      /\ f.page = item.page
                      /\ f.position = [x |-> item.x, y |-> item.y]
                      /\ f.size = [width |-> item.width, height |-> item.height]
                      /\ f.label = item.label
                      /\ f.required = item.required
                      /\ DOMAIN f = IF item.type = "signblock"
                                    THEN ConfigKeys \cup {"captureOptions"}
                                    ELSE ConfigKeys
                      /\ item.type = "signblock"
                            => f.captureOptions = item.captureOptions
            /\ [i \in 1..Len(c.fields) |-> FromConfig(c.fields[i])]
                  = controlItems

\* C16 witness: a save of a date field that a drag has taken to a negative
\* coordinate and a composite block.
C16_Witness ==
    /\ onSaveCall # NoCall
    /\ Len(controlItems) = 2
    /\ controlItems[1].type = "date"
    /\ controlItems[1].x < 0
    /\ controlItems[2].type = "signblock"

\* The type-to-visual-object table of the data model.
TableVisual(type) ==
    CASE type = "signature" -> "rect"
      [] type = "text"      -> "textbox"
      [] type = "date"      -> "rect"
      [] type = "signblock" -> "group"

\* the style attributes of a fabric object
Style(object) ==
    <<object.fill, object.stroke, object.strokeWidth>>

\* C17: in the fabric payload handed to onSave every field's visual object
\* type is the one the table gives for its field type (signature -> rect,
\* text -> textbox, date -> rect, signblock -> group), and two objects of
\* fields of the same type have the same fill, stroke and strokeWidth.
C17_VisualTypeFixedByFieldType ==
    onSaveCall # NoCall =>
        LET f == onSaveCall[2].objects
        IN  /\ Len(f) = Len(controlItems)
            /\ \A i \in Fields : f[i].type = TableVisual(controlItems[i].type)
            /\ \A i, j \in Fields :
                  controlItems[i].type = controlItems[j].type
                     => Style(f[i]) = Style(f[j])
            /\ \A i \in Fields :
                  \A t \in FieldTypes, c \in 0..MaxClock :
                      Style(FabricObject([controlItems[i] EXCEPT
                                !.id = MakeId(t, c), !.x = 0, !.y = 0,
                                !.label = "", !.required = TRUE]))
                         = Style(f[i])

\* C17 witness: a save of two date fields that lie at different places.
C17_Witness ==
    /\ onSaveCall # NoCall
    /\ Len(controlItems) = 2
    /\ controlItems[1].type = "date"
    /\ controlItems[2].type = "date"
    /\ controlItems[1].x # controlItems[2].x
    /\ controlItems[1].id # controlItems[2].id

\* the step is a save: the handler has called onSave
Saves == onSaveCall' # NoCall

\* C18: a save hands the caller one (config, fabric) pair computed from the
\* registry's current content and leaves the fields, the selection, the
\* selected tool and the drag state unchanged; a save that follows a save
\* with nothing in between hands over the same pair.
C18_SaveChangesNothing ==
    [][Saves =>
          /\ onSaveCall' = <<generateConfig(controlItems),
                             generateFabric(controlItems)>>
          /\ onSaveCall' = <<generateConfig(controlItems'),
                             generateFabric(controlItems')>>
          /\ UNCHANGED <<controlItems, selectedItem, selectedTool, isDragging,
                         dragStart>>
          /\ onSaveCall # NoCall => onSaveCall' = onSaveCall]_vars

\* C18 witness: a save taken with a field selected, a placement tool active
\* and the drag flag set has left all three as they were.
C18_Witness ==
    /\ onSaveCall # NoCall
    /\ Len(controlItems) = 1
    /\ selectedItem = controlItems[1].id
    /\ selectedTool = "text"
    /\ isDragging

\* the field a creation step has added
Created == controlItems'[Len(controlItems')]

DocumentIds == [k \in 1..Len(document.fields) |-> document.fields[k].id]

\* a sequence without repetition
OneToOne(seq) == \A i, j \in 1..Len(seq) : seq[i] = seq[j] => i = j

\* a is b with some entries left out: the entries of a are entries of b, in
\* b's order
InOrderOf(a, b) ==
    \A i, j \in 1..Len(a) :
        i < j => \E m, n \in 1..Len(b) : m < n /\ b[m] = a[i] /\ b[n] = a[j]

\* C20: once the data is loaded, the form renders exactly the document's
\* fields whose ids are in the signer's assignment.fields, each once, in the
\* document's field order; a field whose id is not assigned is not rendered.
C20_FormHasExactlyAssignedFields ==
    ~isLoading /\ ~submissionSuccess =>
        /\ {RenderedFields[k] : k \in 1..Len(RenderedFields)}
              = {DocumentIds[k] : k \in 1..Len(DocumentIds)}
                    \cap signerAssignment.fields
        /\ OneToOne(RenderedFields)
        /\ InOrderOf(RenderedFields, DocumentIds)
        /\ \A k \in 1..Len(signerFields) :
              \E m \in 1..Len(document.fields) :
                  signerFields[k] = document.fields[m]

\* C20 witness: of a document with the fields f1, f2, f3 the signer is
\* assigned f1 and f3: the form has exactly these two, in this order.
C20_Witness ==
    /\ ~isLoading
    /\ DocumentIds = <<"field-1", "field-2", "field-3">>
    /\ signerAssignment.fields = {"field-1", "field-3"}
    /\ RenderedFields = <<"field-1", "field-3">>

\* The rules table of the form synthesizer: what a required field of each
\* type accepts.
Satisfies(type, value) ==
    CASE type = "text"      -> value.type = "string" /\ value.v # ""
      [] type = "date"      -> value.type = "date"
      [] type = "checkbox"  -> value = BooleanOf(TRUE)
      [] type = "signature" -> value.type = "string" /\ value.v # ""

\* the required rendered fields whose value does not satisfy their rule
FailingRequired ==
    {id \in RenderedIds :
        /\ FieldOf(signerFields, id).required
        /\ ~Satisfies(FieldOf(signerFields, id).type, FieldValue(formValues, id))}

\* C21: a submit runs the submit handler exactly when every required rendered
\* field satisfies its rule; otherwise it is blocked (the handler is not run,
\* no submission is in progress, the success state is not entered) and a
\* failure is reported for exactly the failing fields.  The success state is
\* entered only from a submission in progress.
C21_SubmitBlockedByFailingRequired ==
    [][/\ Submit =>
             /\ onSubmitCall'.called = (FailingRequired = {})
             /\ isSubmitting' = (FailingRequired = {})
             /\ ~submissionSuccess'
             /\ DOMAIN formErrors' = FailingRequired
       /\ submissionSuccess' /\ ~submissionSuccess => isSubmitting]_formVars

\* C21 witness: of the required fields text Name, date Date and signature
\* Sig, Date and Sig are filled and Name is empty; the submit was blocked
\* with one failure, on Name.
C21_Witness ==
    /\ RenderedFields = <<"field-1", "field-2", "field-4">>
    /\ \A k \in 1..Len(signerFields) : signerFields[k].required
    /\ FieldValue(formValues, "field-1") = StringOf("")
    /\ FieldValue(formValues, "field-2") = DateOf(PickedDay)
    /\ FieldValue(formValues, "field-4") = StringOf(DrawnUrl)
    /\ isSubmitted
    /\ ~isSubmitting
    /\ ~submissionSuccess
    /\ DOMAIN formErrors = {"field-1"}

\* the values of a field type, empty ones included
ValuesOfType(type) ==
    CASE type = "text"      -> {StringOf(""), StringOf("a")}
      [] type = "date"      -> {DateOf(Today), DateOf(PickedDay)}
      [] type = "checkbox"  -> {BooleanOf(TRUE), BooleanOf(FALSE)}
      [] type = "signature" -> {StringOf(""), StringOf(DrawnUrl)}

\* C22: the rule made for a field depends only on its type and required
\* flag: a required field accepts exactly the values that satisfy the table
\* (text: non-empty string, date: a date, checkbox: true, signature:
\* non-empty payload) and so rejects the absent value; an optional field
\* accepts every value of its type and the absent value.
C22_RuleByTypeAndRequired ==
    \A k \in 1..Len(signerFields) :
        LET field == signerFields[k]
        IN  /\ \A value \in ValuesOfType(field.type) \cup {Undefined} :
                  /\ (Issue(field, value) = Accepted)
                        = (field.required => Satisfies(field.type, value))
                  /\ \A j \in 1..Len(MockFields) :
                        (Issue([MockFields[j] EXCEPT
                                   !.type = field.type,
                                   !.required = field.required], value)
                            = Accepted)
                           = (Issue(field, value) = Accepted)

\* C22 witness: a submission passed validation with an optional text field
\* holding the empty string and a required checkbox holding true.
C22_Witness ==
    /\ isSubmitting
    /\ \E k \in 1..Len(signerFields) :
          /\ signerFields[k].type = "text"
          /\ ~signerFields[k].required
          /\ FieldValue(formValues, signerFields[k].id) = StringOf("")
    /\ \E k \in 1..Len(signerFields) :
          /\ signerFields[k].type = "checkbox"
          /\ signerFields[k].required
          /\ FieldValue(formValues, signerFields[k].id) = BooleanOf(TRUE)

\* The defaults table of the form synthesizer.
TableDefault(type) ==
    CASE type = "text"      -> StringOf("")
      [] type = "signature" -> StringOf("")
      [] type = "checkbox"  -> BooleanOf(FALSE)
      [] type = "date"      -> DateOf(Today)

\* the step loads the signer's assigned fields
Loads == isLoading /\ ~isLoading'

\* C23: once the signer's assigned fields have been loaded, the value of
\* every rendered field is its type's default: the empty string for text and
\* signature, false for checkbox, the current date for date.
C23_LoadedFieldsHoldDefaults ==
    [][Loads =>
          \A k \in 1..Len(signerFields') :
              FieldValue(formValues', signerFields'[k].id)
                 = TableDefault(signerFields'[k].type)]_formVars

\* the ids of the document's fields that the assignment in force names
AssignedNow ==
    {document.fields[k].id : k \in 1..Len(document.fields)}
        \cap signerAssignment.fields

\* C24: the rules in force at a submission are those of the assigned subset
\* in force then, whatever subsets were in force before: no failure is
\* reported for a field outside it, a field outside it does not block the
\* submission whatever value it still holds, and every field in it is
\* checked by its rule.
C24_RulesFollowAssignedSubset ==
    [][Submit =>
          /\ DOMAIN formErrors' \subseteq AssignedNow
          /\ \A id \in AssignedNow :
                (id \in DOMAIN formErrors')
                   = (Issue(FieldOf(document.fields, id),
                            FieldValue(formValues, id)) # Accepted)
          /\ onSubmitCall'.called = (DOMAIN formErrors' = {})
          /\ onSubmitCall'.called
                => DOMAIN onSubmitCall'.data = AssignedNow]_formVars

\* C24 witness: a required text field that holds the empty string was dropped
\* from the assigned subset, and the submission of the fields that remain has
\* passed validation.
C24_Witness ==
    /\ isSubmitting
    /\ Len(signerFields) > 0
    /\ \E k \in 1..Len(document.fields) :
          /\ document.fields[k].type = "text"
          /\ document.fields[k].required
          /\ document.fields[k].id \notin signerAssignment.fields
          /\ document.fields[k].id \in DOMAIN formValues
          /\ formValues[document.fields[k].id] = StringOf("")

\* C25: a submission that passed validation hands the submit handler a
\* mapping whose keys are exactly the ids of the rendered fields, each with
\* the value the form holds for that field, which for a required field is
\* one that satisfies its rule.
C25_SubmittedMappingKeyedByRenderedIds ==
    onSubmitCall.called =>
        /\ DOMAIN onSubmitCall.data = RenderedIds
        /\ \A id \in RenderedIds :
              /\ onSubmitCall.data[id] = FieldValue(formValues, id)
              /\ FieldOf(signerFields, id).required
                    => Satisfies(FieldOf(signerFields, id).type,
                                 onSubmitCall.data[id])

\* C25 witness: the handler was handed the values of two rendered fields
\* while the form still holds a value for a field that is no longer
\* rendered.
C25_Witness ==
    /\ onSubmitCall.called
    /\ Cardinality(RenderedIds) = 2
    /\ \E id \in DOMAIN formValues :
          /\ id \notin RenderedIds
          /\ formValues[id] # Undefined

(* ------------------------------------------------------------------ *)
(* SignaturePad: the canvas, its 2d context and the handlers           *)
(* ------------------------------------------------------------------ *)
\* canvas coordinates run over 0..MaxPadCell in both directions
MaxPadCell == 1

\* at most this many images of the init effect wait for their onload
MaxPending == 2

\* canvas.getBoundingClientRect(): where the canvas lies in the viewport
PadLeft == 10
PadTop  == 20

getBoundingClientRect == [left |-> PadLeft, top |-> PadTop]

\* the canvas positions the pointer visits
PadPoints == {<<0, 0>>, <<MaxPadCell, 0>>, <<MaxPadCell, MaxPadCell>>}

\* the viewport position over the canvas point p
ClientOf(p) == <<p[1] + PadLeft, p[2] + PadTop>>

ClientPoints == {ClientOf(p) : p \in PadPoints}

\* onMouseDown / onMouseMove hand the handler React's synthetic event, an
\* object that wraps the DOM event; it has clientX and clientY and no touches
SyntheticMouseEvent(c) ==
    [class |-> "SyntheticBaseEvent", type |-> "mouse",
     clientX |-> c[1], clientY |-> c[2], touches |-> <<>>]

\* onTouchStart / onTouchMove: the synthetic event of a touch at c
SyntheticTouchEvent(c) ==
    [class |-> "SyntheticBaseEvent", type |-> "touch",
     clientX |-> 0, clientY |-> 0,
     touches |-> <<[clientX |-> c[1], clientY |-> c[2]]>>]

\* e instanceof MouseEvent: e is an instance of the DOM's MouseEvent class
instanceofMouseEvent(e) == e.class = "MouseEvent"

\* the handler stopped with a TypeError before it had a position
Threw == [threw |-> TRUE, x |-> 0, y |-> 0]

\* x = e instanceof MouseEvent ? e.clientX - rect.left
\*                             : e.touches[0].clientX - rect.left, and y alike;
\* reading [0] of a missing touches list is a TypeError
EventPoint(e, rect) ==
    IF instanceofMouseEvent(e)
    THEN [threw |-> FALSE, x |-> e.clientX - rect.left,
                           y |-> e.clientY - rect.top]
    ELSE IF Len(e.touches) = 0
         THEN Threw
         ELSE [threw |-> FALSE, x |-> e.touches[1].clientX - rect.left,
                                y |-> e.touches[1].clientY - rect.top]

\* the pixels a stroked line between p and q leaves on the raster
Segment(p, q) == {p, q}

\* context.beginPath(); context.moveTo(x, y)
beginPathMoveTo(x, y) ==
    [open |-> TRUE, start |-> <<x, y>>, cur |-> <<x, y>>, segs |-> {}]

\* context.lineTo(x, y): a line from the current point; on a context with
\* no path it only sets the point, and a line of no length adds nothing
lineTo(path, x, y) ==
    IF ~path.open
    THEN beginPathMoveTo(x, y)
    ELSE [path EXCEPT !.cur = <<x, y>>,
                      !.segs = IF path.cur = <<x, y>>
                               THEN @
                               ELSE @ \cup {Segment(path.cur, <<x, y>>)}]

\* context.stroke(): every line of the current path is painted
stroke(canvas, path) == canvas \cup path.segs

\* context.closePath(): a line back to the start of the path, not painted
closePath(path) ==
    IF ~path.open \/ path.segs = {} \/ path.cur = path.start
    THEN path
    ELSE [path EXCEPT !.cur = path.start,
                      !.segs = @ \cup {Segment(path.cur, path.start)}]

\* canvas.toDataURL("image/png"): the raster, background included
toDataURL(canvas) == [mime |-> "image/png", ink |-> canvas]

\* context.drawImage(img, 0, 0): the image is as large as the canvas and
\* opaque, so the raster becomes the image
drawImage(canvas, img) == img.ink

\* an init effect that loads nothing
initEffectNoLoad(loads, value) == loads

\* if (value) { img.onload = ...; img.src = value }: one more pending load
initEffectLoads(loads, value) ==
    IF value # EmptyPayload THEN Append(loads, value) ELSE loads

\* onChange(data): the form takes the value and hands it back as the value
\* prop (formField.onChange / formField.value); when the prop changed, the
\* init effect runs again: the canvas is filled and the value is loaded.
\* canvas is the raster the handler leaves.
onChange(data, canvas) ==
    /\ padReported' = <<data>>
    /\ padValue' = data
    /\ IF data # padValue
       THEN /\ padCanvas' = Blank
            /\ padLoads' = initEffectLoads(padLoads, data)
       ELSE /\ padCanvas' = canvas
            /\ UNCHANGED padLoads

\* startDrawing: both flags are set before the position is read
startDrawing(e) ==
    LET at == EventPoint(e, getBoundingClientRect)
    IN  /\ padIsDrawing' = TRUE
        /\ padIsEmpty' = FALSE
        /\ padPath' = IF at.threw THEN padPath
                      ELSE beginPathMoveTo(at.x, at.y)
        /\ padReported' = <<>>
        /\ UNCHANGED <<padCanvas, padValue, padLoads>>

\* draw: if (!isDrawing) return; then lineTo and stroke
draw(e) ==
    LET at == EventPoint(e, getBoundingClientRect)
    IN  /\ padReported' = <<>>
        /\ IF ~padIsDrawing \/ at.threw
           THEN UNCHANGED <<padIsDrawing, padIsEmpty, padCanvas, padPath,
                            padValue, padLoads>>
           ELSE /\ padPath' = lineTo(padPath, at.x, at.y)
                /\ padCanvas' = stroke(padCanvas, padPath')
                /\ UNCHANGED <<padIsDrawing, padIsEmpty, padValue,
                               padLoads>>

\* an end of drawing that exports whether or not a stroke is in progress
endDrawingUnguarded ==
    /\ padPath' = closePath(padPath)
    /\ padIsDrawing' = FALSE
    /\ onChange(toDataURL(padCanvas), padCanvas)
    /\ UNCHANGED padIsEmpty

\* endDrawing: if (!isDrawing) return; closePath, setIsDrawing(false),
\* onChange(canvas.toDataURL("image/png"))
endDrawing ==
    IF ~padIsDrawing
    THEN /\ padReported' = <<>>
         /\ UNCHANGED <<padIsDrawing, padIsEmpty, padCanvas, padPath,
                        padValue, padLoads>>
    ELSE /\ padPath' = closePath(padPath)
         /\ padIsDrawing' = FALSE
         /\ onChange(toDataURL(padCanvas), padCanvas)
         /\ UNCHANGED padIsEmpty

\* a clear that leaves the widget marked non-empty
clearSignatureKeepsFlag ==
    /\ onChange(EmptyPayload, Blank)
    /\ UNCHANGED <<padIsDrawing, padIsEmpty, padPath>>

\* clearSignature: fillRect, setIsEmpty(true), onChange("")
clearSignature ==
    /\ padIsEmpty' = TRUE
    /\ onChange(EmptyPayload, Blank)
    /\ UNCHANGED <<padIsDrawing, padPath>>

\* the lines the stroke() of draw(e) paints: the whole current path
Painted(e) ==
    LET at == EventPoint(e, getBoundingClientRect)
    IN  IF ~padIsDrawing \/ at.threw THEN {}
        ELSE lineTo(padPath, at.x, at.y).segs

\* a pointer of the given kind went down at viewport position c
GestureAt(kind, c) ==
    [by |-> kind, at |-> <<c[1] - PadLeft, c[2] - PadTop>>, segs |-> {}]

\* the pointer of the gesture moved on to viewport position c
Traced(gesture, c) ==
    LET to == <<c[1] - PadLeft, c[2] - PadTop>>
    IN  [gesture EXCEPT !.at = to,
                        !.segs = IF gesture.at = to THEN @
                                 ELSE @ \cup {Segment(gesture.at, to)}]

\* an export that would start a load while MaxPending loads wait
LoadsFull ==
    /\ padIsDrawing
    /\ toDataURL(padCanvas) # padValue
    /\ Len(padLoads) >= MaxPending

\* the values the form can hand a pad it constructs: none, or a payload the
\* pad reported before
PriorPayloads ==
    {EmptyPayload, toDataURL({Segment(<<0, 0>>, <<MaxPadCell, MaxPadCell>>)})}

\* construction: useState(false), useState(true), then the init effect
PadMount(value) ==
    /\ ~padMounted
    /\ padMounted' = TRUE
    /\ padIsDrawing' = FALSE
    /\ padIsEmpty' = TRUE
    /\ padCanvas' = Blank
    /\ padPath' = NoPath
    /\ padValue' = value
    /\ padLoads' = initEffectLoads(<<>>, value)
    /\ padReported' = <<>>
    /\ padDrawn' = {}
    /\ UNCHANGED <<padPointer, padButton, padTouch, padTraced>>
    /\ UNCHANGED vars
    /\ UNCHANGED formVars
    /\ UNCHANGED signers

\* img.onload of a pending load: drawImage(img, 0, 0); setIsEmpty(false)
ImageLoad(k) ==
    /\ padMounted
    /\ k \in 1..Len(padLoads)
    /\ padCanvas' = drawImage(padCanvas, padLoads[k])
    /\ padIsEmpty' = FALSE
    /\ padLoads' = [j \in 1..(Len(padLoads) - 1) |->
                       IF j < k THEN padLoads[j] ELSE padLoads[j + 1]]
    /\ padReported' = <<>>
    /\ UNCHANGED <<padMounted, padIsDrawing, padPath, padValue, padPointer,
                   padButton, padTouch, padTraced, padDrawn>>
    /\ UNCHANGED vars
    /\ UNCHANGED formVars
    /\ UNCHANGED signers

\* the mouse moves: onto or over the canvas is onMouseMove={draw}, off the
\* canvas is onMouseLeave={endDrawing}
PadMouseMove(to) ==
    /\ padMounted
    /\ to # padPointer
    /\ to = OffCanvas => ~LoadsFull
    /\ padPointer' = to
    /\ IF to = OffCanvas
       THEN endDrawing
       ELSE draw(SyntheticMouseEvent(to))
    /\ padTraced' = IF padTraced.by # "mouse" THEN padTraced
                    ELSE IF to = OffCanvas THEN NoGesture
                    ELSE Traced(padTraced, to)
    /\ padDrawn' = IF to = OffCanvas THEN padDrawn
                   ELSE padDrawn \cup Painted(SyntheticMouseEvent(to))
    /\ UNCHANGED <<padMounted, padButton, padTouch>>
    /\ UNCHANGED vars
    /\ UNCHANGED formVars
    /\ UNCHANGED signers

\* the mouse button goes down over the canvas: onMouseDown={startDrawing};
\* one pointer is down at a time
PadMouseDown ==
    /\ padMounted
    /\ padPointer # OffCanvas
    /\ ~padButton
    /\ ~padTouch
    /\ padButton' = TRUE
    /\ startDrawing(SyntheticMouseEvent(padPointer))
    /\ padTraced' = GestureAt("mouse", padPointer)
    /\ UNCHANGED <<padMounted, padPointer, padTouch, padDrawn>>
    /\ UNCHANGED vars
    /\ UNCHANGED formVars
    /\ UNCHANGED signers

\* the mouse button is released: over the canvas it is onMouseUp={endDrawing},
\* elsewhere the pad has no handler
PadMouseUp ==
    /\ padMounted
    /\ padButton
    /\ padPointer # OffCanvas => ~LoadsFull
    /\ padButton' = FALSE
    /\ IF padPointer # OffCanvas
       THEN endDrawing
       ELSE /\ padReported' = <<>>
            /\ UNCHANGED <<padIsDrawing, padIsEmpty, padCanvas, padPath,
                           padValue, padLoads>>
    /\ padTraced' = IF padTraced.by = "mouse" THEN NoGesture ELSE padTraced
    /\ UNCHANGED <<padMounted, padPointer, padTouch, padDrawn>>
    /\ UNCHANGED vars
    /\ UNCHANGED formVars
    /\ UNCHANGED signers

\* a finger touches the canvas at c: onTouchStart={startDrawing}
PadTouchStart(c) ==
    /\ padMounted
    /\ ~padTouch
    /\ ~padButton
    /\ c \in ClientPoints
    /\ padTouch' = TRUE
    /\ startDrawing(SyntheticTouchEvent(c))
    /\ padTraced' = GestureAt("touch", c)
    /\ UNCHANGED <<padMounted, padPointer, padButton, padDrawn>>
    /\ UNCHANGED vars
    /\ UNCHANGED formVars
    /\ UNCHANGED signers

\* the finger moves to c: onTouchMove={draw}
PadTouchMove(c) ==
    /\ padMounted
    /\ padTouch
    /\ c \in ClientPoints
    /\ draw(SyntheticTouchEvent(c))
    /\ padTraced' = IF padTraced.by = "touch" THEN Traced(padTraced, c)
                    ELSE padTraced
    /\ padDrawn' = padDrawn \cup Painted(SyntheticTouchEvent(c))
    /\ UNCHANGED <<padMounted, padPointer, padButton, padTouch>>
    /\ UNCHANGED vars
    /\ UNCHANGED formVars
    /\ UNCHANGED signers

\* the finger is lifted: onTouchEnd={endDrawing}
PadTouchEnd ==
    /\ padMounted
    /\ padTouch
    /\ ~LoadsFull
    /\ padTouch' = FALSE
    /\ endDrawing
    /\ padTraced' = IF padTraced.by = "touch" THEN NoGesture ELSE padTraced
    /\ UNCHANGED <<padMounted, padPointer, padButton, padDrawn>>
    /\ UNCHANGED vars
    /\ UNCHANGED formVars
    /\ UNCHANGED signers

\* a click on the Clear button, which is disabled={isEmpty}
PadClear ==
    /\ padMounted
    /\ ~padIsEmpty
    /\ clearSignature
    /\ padDrawn' = {}
    /\ UNCHANGED <<padMounted, padPointer, padButton, padTouch, padTraced>>
    /\ UNCHANGED vars
    /\ UNCHANGED formVars
    /\ UNCHANGED signers

NextPad ==
    \/ \E value \in PriorPayloads : PadMount(value)
    \/ \E k \in 1..MaxPending : ImageLoad(k)
    \/ \E to \in ClientPoints \cup {OffCanvas} : PadMouseMove(to)
    \/ PadMouseDown
    \/ PadMouseUp
    \/ \E c \in ClientPoints : PadTouchStart(c)
    \/ \E c \in ClientPoints : PadTouchMove(c)
    \/ PadTouchEnd
    \/ PadClear

SpecPad == Init /\ [][NextPad]_padVars

PadTypeOK ==
    /\ padIsDrawing \in BOOLEAN
    /\ padIsEmpty \in BOOLEAN
    /\ Len(padLoads) <= MaxPending
    /\ Len(padReported) <= 1

\* the canvas position under the viewport position c
Relative(c) == <<c[1] - PadLeft, c[2] - PadTop>>

\* the step is a pointer-down on the canvas at viewport position c
PointerDownAt(c) ==
    \/ PadMouseDown /\ padPointer = c
    \/ PadTouchStart(c)

\* the step is a pointer-move over the canvas to viewport position c
PointerMoveTo(c) ==
    \/ PadMouseMove(c) /\ c # OffCanvas
    \/ PadTouchMove(c)

\* C26: a pointer-down on the canvas, by mouse or by touch, begins a new
\* path at the pointer's canvas position and makes the widget Drawing; a
\* pointer-move while Drawing extends the path with a painted segment to the
\* new position, and a pointer-move while Idle changes nothing.
C26_PointerDownBeginsStroke ==
    [][\A c \in ClientPoints :
          /\ PointerDownAt(c)
                => /\ padIsDrawing'
                   /\ padPath' = beginPathMoveTo(Relative(c)[1], Relative(c)[2])
          /\ PointerMoveTo(c) /\ padIsDrawing
                => /\ padPath'.open
                   /\ padPath'.cur = Relative(c)
                   /\ padPath.open /\ padPath.cur # Relative(c)
                         => Segment(padPath.cur, Relative(c)) \in padCanvas'
          /\ PointerMoveTo(c) /\ ~padIsDrawing
                => UNCHANGED <<padIsDrawing, padIsEmpty, padCanvas, padPath,
                               padValue, padLoads>>]_padVars

\* the same for touch input alone
TouchBeginsStroke ==
    [][\A c \in ClientPoints :
          /\ PadTouchStart(c)
                => /\ padIsDrawing'
                   /\ padPath' = beginPathMoveTo(Relative(c)[1], Relative(c)[2])
          /\ PadTouchMove(c) /\ padIsDrawing
                => /\ padPath'.open
                   /\ padPath'.cur = Relative(c)
                   /\ padPath.open /\ padPath.cur # Relative(c)
                         => Segment(padPath.cur, Relative(c)) \in padCanvas'
          /\ PointerMoveTo(c) /\ ~padIsDrawing
                => UNCHANGED <<padIsDrawing, padIsEmpty, padCanvas, padPath,
                               padValue, padLoads>>]_padVars

\* the step is a pointer-up on the canvas or the pointer leaving it
PointerUpOrLeave ==
    \/ PadMouseUp /\ padPointer # OffCanvas
    \/ PadTouchEnd
    \/ PadMouseMove(OffCanvas)

\* C27: a pointer-up or pointer-leave while Drawing makes the widget Idle
\* and calls the change callback exactly once, with the export of the canvas
\* as it is; a pointer-up or pointer-leave while Idle calls no callback and
\* changes no state.
C27_EndOfStrokeExportsOnce ==
    [][PointerUpOrLeave
          => IF padIsDrawing
             THEN /\ ~padIsDrawing'
                  /\ padReported' = <<toDataURL(padCanvas)>>
             ELSE /\ padReported' = <<>>
                  /\ UNCHANGED <<padIsDrawing, padIsEmpty, padCanvas, padPath,
                                 padValue, padLoads>>]_padVars

\* C27 witness: a stroke was just ended: the widget is Idle and the latest
\* handler reported one exported image that holds ink.
C27_Witness ==
    /\ ~padIsDrawing
    /\ Len(padReported) = 1
    /\ padReported[1].mime = "image/png"
    /\ padReported[1].ink # Blank

\* the step is the pointer-up that ends the gesture of the given kind
PointerUpOf(kind) ==
    /\ padTraced.by = kind
    /\ \/ kind = "mouse" /\ PadMouseUp
       \/ kind = "touch" /\ PadTouchEnd

\* the lines are on the canvas, or in an image the canvas is about to show
OnCanvas(segs, canvas, loads) ==
    \/ segs \subseteq canvas
    \/ \E k \in 1..Len(loads) : segs \subseteq loads[k].ink

\* C28: a stroke of non-zero length (pointer-down, one or more pointer-moves
\* to another position, pointer-up), drawn with mouse or with touch, is on
\* the canvas afterwards and in the non-empty payload the pointer-up reports.
C28_StrokeIsReported ==
    [][\A kind \in {"mouse", "touch"} :
          PointerUpOf(kind) /\ padTraced.segs # {}
             => /\ Len(padReported') = 1
                /\ padReported'[1] # EmptyPayload
                /\ padTraced.segs \subseteq padReported'[1].ink
                /\ OnCanvas(padTraced.segs, padCanvas', padLoads')]_padVars

\* the same for a touch gesture that is still Drawing at its end and during
\* which no image load painted over the stroke
TouchStrokeIsReported ==
    [][PointerUpOf("touch") /\ padTraced.segs # {}
          /\ padIsDrawing
          /\ padTraced.segs \subseteq padCanvas
          => /\ Len(padReported') = 1
             /\ padReported'[1] # EmptyPayload
             /\ padTraced.segs \subseteq padReported'[1].ink
             /\ OnCanvas(padTraced.segs, padCanvas', padLoads')]_padVars

\* C29: clear resets the canvas to the blank background, marks the widget
\* empty and reports the empty payload; it is available only while the
\* widget is marked non-empty, so a widget that is marked empty cannot be
\* cleared again.
C29_ClearResetsAndReportsEmpty ==
    /\ [][PadClear
             => /\ ~padIsEmpty
                /\ padCanvas' = Blank
                /\ padIsEmpty'
                /\ padReported' = <<EmptyPayload>>
                /\ padValue' = EmptyPayload
                /\ UNCHANGED <<padIsDrawing, padLoads>>]_padVars
    /\ [](padIsEmpty => ~ENABLED PadClear)

\* C29 witness: the widget was just cleared: blank canvas, marked empty, the
\* empty payload reported.
C29_Witness ==
    /\ padReported = <<EmptyPayload>>
    /\ padIsEmpty
    /\ padCanvas = Blank
    /\ padValue = EmptyPayload

\* the step constructs the widget with a non-empty value
MountsWithPayload ==
    \E value \in PriorPayloads \ {EmptyPayload} : PadMount(value)

\* C30: a widget constructed with a non-empty payload loads that payload, and
\* when the load completes the canvas shows the payload and the widget is
\* marked non-empty; neither step makes the widget Drawing or calls the
\* change callback.
C30_RehydratesWithoutDrawing ==
    [][/\ MountsWithPayload
             => /\ padLoads' = <<padValue'>>
                /\ ~padIsDrawing'
                /\ padReported' = <<>>
       /\ \A k \in 1..MaxPending :
             ImageLoad(k)
                => /\ padCanvas' = padLoads[k].ink
                   /\ ~padIsEmpty'
                   /\ padReported' = <<>>
                   /\ UNCHANGED <<padIsDrawing, padValue>>]_padVars

\* C30 witness: a widget constructed with a payload that holds ink shows it
\* and is marked non-empty, and no pointer has touched the canvas.
C30_Witness ==
    /\ padMounted
    /\ padValue.ink # Blank
    /\ padCanvas = padValue.ink
    /\ ~padIsEmpty
    /\ ~padIsDrawing
    /\ padLoads = <<>>
    /\ padReported = <<>>
    /\ padPath = NoPath
    /\ padPointer = OffCanvas
    /\ padTraced = NoGesture

\* C31: after any sequence of editor events the selection is empty or is the
\* id of a field of the collection.
C31_SelectionIsEmptyOrRegistered ==
    selectedItem = NoItem
        \/ \E k \in 1..Len(controlItems) : controlItems[k].id = selectedItem

\* C31 witness: of two fields with different ids the older one is the
\* selected one: the selection was moved after the last field was placed.
C31_Witness ==
    /\ Len(controlItems) = 2
    /\ controlItems[1].id # controlItems[2].id
    /\ selectedItem = controlItems[1].id

\* the step changes the position of field k
Repositions(k) ==
    /\ Len(controlItems') = Len(controlItems)
    /\ k \in 1..Len(controlItems)
    /\ \/ controlItems'[k].x # controlItems[k].x
       \/ controlItems'[k].y # controlItems[k].y

\* the button pressed on field k under the move tool is still held
HeldOn(k) ==
    /\ session.active
    /\ button.down = "canvas"
    /\ button.item = k

\* C32: a field's position changes only while the button that was pressed on
\* that field with the move tool is still held, and whenever the drag flag is
\* set the selected field is the field of that press.
C32_MovesOnlyWhilePressHeld ==
    [][/\ \A k \in 1..MaxFields : Repositions(k) => HeldOn(k)
       /\ isDragging' /\ selectedItem' # NoItem
             => /\ session'.active
                /\ button'.item \in 1..Len(controlItems')
                /\ selectedItem' = controlItems'[button'.item].id]_vars

\* the same for the only press of an editor whose drags all ended with a
\* release over the canvas container and whose fields have different ids
ReleasedInside ==
    [][(\A i, j \in Fields : i # j => controlItems[i].id # controlItems[j].id)
          /\ (isDragging => session.active)
          => \A k \in 1..MaxFields : Repositions(k) => HeldOn(k)]_vars

\* the form renders an input control for a field of this type
HasControl(type) == ControlValues(type) # {}

PlaceableButSignblock ==
    [][Submit
          => \A k \in 1..Len(signerFields) :
                signerFields[k].type # "signblock"
                   => /\ signerFields[k].id \in SchemaKeys(formSchemaFields)
                      /\ HasControl(signerFields[k].type)
                      /\ signerFields[k].required
                           /\ FieldValue(formValues, signerFields[k].id)
                                 = Undefined
                            => ~onSubmitCall'.called]_formVars

\* C38: the submitting flag is set only by a submit that passed validation
\* and cleared only by the completion of that submission, which always comes;
\* the success state is entered only by that completion, with the flag
\* cleared, and is never left.
C38_SubmittingFlagAndSuccess ==
    /\ [][/\ ~isSubmitting /\ isSubmitting'
                => Submit /\ onSubmitCall'.called /\ DOMAIN formErrors' = {}
          /\ isSubmitting /\ ~isSubmitting' => SubmitDone
          /\ ~submissionSuccess /\ submissionSuccess'
                => SubmitDone /\ ~isSubmitting'
          /\ submissionSuccess => submissionSuccess']_formVars
    /\ (isSubmitting ~> ~isSubmitting)

\* C38 witness: a submission has completed: the success state is reached and
\* the submitting flag is cleared.
C38_Witness ==
    /\ submissionSuccess
    /\ ~isSubmitting
    /\ isSubmitted
    /\ Len(signerFields) = 2

(* ------------------------------------------------------------------ *)
(* The document form: the signers list                                 *)
(* ------------------------------------------------------------------ *)
\* at most this many signers are added to one document
MaxSigners == 5

\* `signer-${fields.length + 1}`
SignerId(n) == "signer-" \o ToString(n)

\* append({ signerId: `signer-${fields.length + 1}`, ... })
appendSigner(list) == Append(list, SignerId(Len(list) + 1))

\* remove(index) of useFieldArray
removeSigner(list, index) ==
    [i \in 1..(Len(list) - 1) |-> IF i < index THEN list[i] ELSE list[i + 1]]

\* the Add Signer button
AddSigner ==
    /\ Len(signers) < MaxSigners
    /\ signers' = appendSigner(signers)
    /\ UNCHANGED vars
    /\ UNCHANGED formVars
    /\ UNCHANGED padVars

\* the remove button of an entry, rendered when fields.length > 1
RemoveSigner(index) ==
    /\ Len(signers) > 1
    /\ index \in 1..Len(signers)
    /\ signers' = removeSigner(signers, index)
    /\ UNCHANGED vars
    /\ UNCHANGED formVars
    /\ UNCHANGED padVars

\* New Document: form.reset(); form.setValue("signers", [{ signerId: "" ... }])
NewDocument ==
    /\ signers' = <<"">>
    /\ UNCHANGED vars
    /\ UNCHANGED formVars
    /\ UNCHANGED padVars

NextSigners ==
    \/ AddSigner
    \/ \E index \in 1..MaxSigners : RemoveSigner(index)
    \/ NewDocument

SpecSigners == Init /\ [][NextSigners]_signers

\* C39: the signer id Add Signer pre-fills differs from the pre-filled id of
\* every signer in the list, and the list never has fewer than one signer.
C39_PrefilledSignerIdIsNew ==
    /\ [][AddSigner
             => \A k \in 1..Len(signers) :
                   signers[k] # signers'[Len(signers')]]_signers
    /\ [](Len(signers) >= 1)

\* the list never has fewer than one signer
AtLeastOneSigner == Len(signers) >= 1

\* the handler of the step reported an image
ReportsImage ==
    /\ Len(padReported') = 1
    /\ padReported'[1] # EmptyPayload

\* C33: every image the widget reports contains every line painted on the
\* canvas since the last clear, however the pointer events interleave with
\* the refill and the image load that follow each report.
C33_StrokesAccumulate ==
    [][ReportsImage => padDrawn \subseteq padReported'[1].ink]_padVars

\* the widget is empty: blank canvas, marked empty, the empty value
IsCleared ==
    /\ padMounted
    /\ padCanvas = Blank
    /\ padIsEmpty
    /\ padValue = EmptyPayload

\* the step is a pointer-down on the canvas
IsPointerDown ==
    \/ PadMouseDown
    \/ \E c \in ClientPoints : PadTouchStart(c)

\* C34: once cleared the widget stays empty (blank canvas, marked empty, the
\* empty value) until the next pointer-down, also when an image load begun
\* before the clear completes after it.
C34_StaysEmptyAfterClear ==
    [][IsCleared /\ ~IsPointerDown
          => /\ padCanvas' = Blank
             /\ padIsEmpty'
             /\ padValue' = EmptyPayload]_padVars

\* the same for the steps other than the completion of an image load and a
\* pointer-move of a stroke that was in progress when the widget was cleared
StaysEmptyBarLoads ==
    [][IsCleared /\ ~IsPointerDown /\ ~padIsDrawing
          /\ ~(\E k \in 1..MaxPending : ImageLoad(k))
          => /\ padCanvas' = Blank
             /\ padIsEmpty'
             /\ padValue' = EmptyPayload]_padVars

\* the same for an Idle widget: only the completion of an image load is left
StaysEmptyWhileIdle ==
    [][IsCleared /\ ~IsPointerDown /\ ~padIsDrawing
          => /\ padCanvas' = Blank
             /\ padIsEmpty'
             /\ padValue' = EmptyPayload]_padVars

\* the widget without the image loads that complete while the value is empty
NextPadFresh ==
    \/ NextPad /\ ~(\E k \in 1..MaxPending : ImageLoad(k))
    \/ \E k \in 1..MaxPending : ImageLoad(k) /\ padValue # EmptyPayload

SpecPadFresh == Init /\ [][NextPadFresh]_padVars

\* C35: whenever the widget is Idle and no image load is pending, it is
\* marked empty exactly when the value it last reported or was given is the
\* empty payload.
C35_EmptyFlagMatchesValue ==
    padMounted /\ ~padIsDrawing /\ padLoads = <<>>
        => (padIsEmpty <=> padValue = EmptyPayload)

\* the string the form holds for a payload: "" or the data URL
FormString(payload) ==
    IF payload = EmptyPayload THEN StringOf("") ELSE StringOf(DrawnUrl)

\* C36: the widget reports a non-empty payload only when the canvas holds a
\* line: the report of a canvas without one does not satisfy the rule of a
\* required signature field.
C36_NoStrokeNoSignature ==
    [][Len(padReported') = 1 /\ padCanvas = Blank
          => StringRule(TRUE, "Signature is required",
                        FormString(padReported'[1])) # Accepted]_padVars
====
